---- MODULE Spec2Model ----
(***************************************************************************)
(* The viewport intersection multiplexer of                                *)
(* src/core/dom/layout/viewport-observer.js: one IntersectionObserver per  *)
(* window, a list of callbacks per element, the dispatcher ioCallback and  *)
(* the disposers returned by observeIntersections.                         *)
(*                                                                         *)
(* The program is single-threaded.  A dispatch (ioCallback) is modelled    *)
(* step by step, because the callbacks it invokes are caller code that may *)
(* call observeIntersections or a disposer while the dispatch is running.  *)
(***************************************************************************)
EXTENDS Integers, Sequences, FiniteSets, TLC

\* Bounds of the model.
MaxRegs == 3            \* observeIntersections calls in one behaviour
MaxBatch == 2           \* records in one dispatch batch

Windows == {"w1", "w2"}
Elements == {"e1", "e2"}
Callbacks == {"A", "B"}

\* isIframed(win): whether the window is embedded in another document.
isIframed(win) == win = "w2"

VARIABLES
  ownerWindow,        \* element -> the window of its document (fixed after Init)
  viewportObservers,  \* WeakMap<Window, IntersectionObserver>: window -> index in observers
  viewportCallbacks,  \* WeakMap<Element, Array<callback>>: element -> sequence
  observers,          \* every IntersectionObserver constructed so far
  disposers,          \* the closures returned by observeIntersections that callers hold:
                      \* how many there are of each (element, callback, called before)
  pc,                 \* "idle", or the position of the running ioCallback
  entries,            \* ioCallback: the batch (a sequence of targets; the index is the record)
  i,                  \* ioCallback: index of the outer loop (0-based, as in the source)
  seen,               \* ioCallback: the Set seen
  callbacks,          \* ioCallback: the array the local `callbacks` refers to
  k,                  \* ioCallback: index of the inner loop (0-based)
  startCallbacks,     \* history: the target's list when its inner loop began
  invoked,            \* history: the callbacks invoked so far for the current target
  cancelled,          \* history: callbacks whose disposer for the target ran during its loop
  skipped,            \* history: targets of this batch skipped for having no list
  laterDispatch,      \* history: a disposer had been called when this dispatch began
  liveRegs            \* history: per element, the callbacks of its registrations in the
                      \* order they were made, less one (the first) per disposer call
                      \* that found the callback registered

vars == <<ownerWindow, viewportObservers, viewportCallbacks, observers, disposers, pc,
          entries, i, seen, callbacks, k, startCallbacks, invoked, cancelled,
          skipped, laterDispatch, liveRegs>>

\* getWin(element) of #core/window: the window owning the element.
getWin(element) == ownerWindow[element]

registry == <<viewportObservers, viewportCallbacks, observers>>
dispatch == <<entries, i, seen, k>>
history == <<startCallbacks, invoked, cancelled, skipped, laterDispatch>>

----------------------------------------------------------------------------
\* WeakMap operations (keys stay reachable in the model, so nothing is collected).
Has(map, key) == key \in DOMAIN map
Set(map, key, value) == [x \in DOMAIN map \cup {key} |-> IF x = key THEN value ELSE map[x]]
Delete(map, key) == [x \in DOMAIN map \ {key} |-> map[x]]

Range(s) == {s[n] : n \in 1..Len(s)}

\* s without the first occurrence of c (s itself when c does not occur).
WithoutFirst(s, c) ==
  IF c \notin Range(s) THEN s
  ELSE LET n == CHOOSE m \in 1..Len(s) : s[m] = c /\ \A j \in 1..(m - 1) : s[j] # c
       IN SubSeq(s, 1, n - 1) \o SubSeq(s, n + 1, Len(s))

\* Array.prototype.indexOf: 0-based index of the first occurrence, or -1.
indexOf(array, item) ==
  IF \E n \in 1..Len(array) : array[n] = item
    THEN (CHOOSE n \in 1..Len(array) :
            array[n] = item /\ \A m \in 1..(n - 1) : array[m] # item) - 1
    ELSE -1

\* Array.prototype.splice(index, 1): the array without the item at the 0-based index.
splice(array, index) ==
  [n \in 1..(Len(array) - 1) |-> IF n <= index THEN array[n] ELSE array[n + 1]]

\* removeItem(array, item) of #core/types/array: removes the first occurrence of
\* item; `removed` is its boolean result, `array` the array afterwards.
removeItem(array, item) ==
  IF indexOf(array, item) = -1
    THEN [removed |-> FALSE, array |-> array]
    ELSE [removed |-> TRUE, array |-> splice(array, indexOf(array, item))]

\* createViewportObserver(ioCallback, win, opts): a new IntersectionObserver of win,
\* watching nothing yet.
createViewportObserver(win, needsRootBounds) ==
  [win |-> win,
   root |-> IF isIframed(win) /\ needsRootBounds THEN "document" ELSE "undefined",
   watched |-> {}]

\* IntersectionObserver.observe(element) / unobserve(element) on observers[id].
observe(obs, id, element) ==
  [obs EXCEPT ![id].watched = @ \cup {element}]
unobserve(obs, id, element) ==
  [obs EXCEPT ![id].watched = @ \ {element}]

\* The target of the record the outer loop is at.
target == entries[i + 1]

\* The array the local variable `callbacks` of ioCallback refers to: the one stored
\* in viewportCallbacks for the target, or an array that was emptied and deleted from
\* viewportCallbacks while the loop was running (nothing else refers to it, so it
\* stays empty).
localCallbacks == IF callbacks = "registry" THEN viewportCallbacks[target] ELSE <<>>

\* Single thread: an entry point runs between dispatches, or from a running callback.
\* The closures observeIntersections has returned so far.
Disposers == Elements \X Callbacks \X BOOLEAN
RECURSIVE Sum(_, _)
Sum(f, S) == IF S = {} THEN 0 ELSE LET x == CHOOSE y \in S : TRUE
                                   IN f[x] + Sum(f, S \ {x})
Registrations == Sum(disposers, Disposers)

CanCall == pc \in {"idle", "inCallback"}

InLoopOf(element) == pc = "inCallback" /\ element = target

----------------------------------------------------------------------------
\* A fault of lines 46-47: the registry is not consulted, every call constructs.
needsObserver_always(win) == TRUE

\* observeIntersections, lines 46-47: is a primitive to be constructed for win?
needsObserver(win) == ~Has(viewportObservers, win)

\* A fault of line 58: unshift instead of push.
pushCallback_front(element, callback) ==
  <<callback>> \o (IF Has(viewportCallbacks, element) THEN viewportCallbacks[element]
                   ELSE <<>>)

\* observeIntersections, lines 53-58: the element's list after the push.
pushCallback(element, callback) ==
  Append(IF Has(viewportCallbacks, element) THEN viewportCallbacks[element] ELSE <<>>,
         callback)

\* observeIntersections, line 59: the primitives after viewportObserver.observe(element).
watch(obs, id, element) == observe(obs, id, element)

observeIntersections(element, callback) ==
  LET win == getWin(element)
      create == needsObserver(win)
      id == IF create THEN Len(observers) + 1 ELSE viewportObservers[win]
      obs == IF create
               THEN Append(observers, createViewportObserver(win, FALSE))
               ELSE observers
  IN /\ CanCall
     /\ Registrations < MaxRegs
     /\ viewportObservers' =
          IF create THEN Set(viewportObservers, win, id) ELSE viewportObservers
     /\ viewportCallbacks' = Set(viewportCallbacks, element, pushCallback(element, callback))
     /\ observers' = watch(obs, id, element)
     /\ disposers' = [disposers EXCEPT ![<<element, callback, FALSE>>] = @ + 1]
     /\ liveRegs' = [liveRegs EXCEPT ![element] = Append(@, callback)]
     /\ UNCHANGED <<ownerWindow, pc, dispatch, callbacks, history>>

\* A fault of lines 83-85: the primitive is not told to stop watching.
unwatch_skipped(element) == observers

\* unobserveIntersections, lines 83-85: the primitives after
\* viewportObserver?.unobserve(element).
unwatch(element) ==
  IF Has(viewportObservers, getWin(element))
    THEN unobserve(observers, viewportObservers[getWin(element)], element)
    ELSE observers

unobserveIntersections(element, callback) ==
  IF ~Has(viewportCallbacks, element)
    THEN UNCHANGED <<registry, callbacks>>
    ELSE LET r == removeItem(viewportCallbacks[element], callback) IN
      IF ~r.removed
        THEN UNCHANGED <<registry, callbacks>>
        ELSE IF Len(r.array) > 0
          THEN /\ viewportCallbacks' = Set(viewportCallbacks, element, r.array)
               /\ UNCHANGED <<viewportObservers, observers, callbacks>>
          ELSE /\ observers' = unwatch(element)
               /\ viewportCallbacks' = Delete(viewportCallbacks, element)
               /\ callbacks' = IF pc = "inCallback" /\ callbacks = "registry"
                                  /\ element = target
                                 THEN "detached" ELSE callbacks
               /\ UNCHANGED viewportObservers

\* The closure returned by observeIntersections (lines 60-62), called: one that
\* was called before (calledBefore) or one that was not.
CallDisposer(element, callback, calledBefore) ==
  /\ CanCall
  /\ disposers[<<element, callback, calledBefore>>] > 0
  /\ disposers' = IF calledBefore THEN disposers
                   ELSE [disposers EXCEPT ![<<element, callback, FALSE>>] = @ - 1,
                                          ![<<element, callback, TRUE>>] = @ + 1]
  /\ unobserveIntersections(element, callback)
  /\ cancelled' = IF InLoopOf(element) THEN cancelled \cup {callback} ELSE cancelled
  /\ liveRegs' = [liveRegs EXCEPT ![element] = WithoutFirst(@, callback)]
  /\ UNCHANGED <<ownerWindow, pc, dispatch, startCallbacks, invoked, skipped,
                 laterDispatch>>

----------------------------------------------------------------------------
\* ioCallback(entries), step by step.

Batches == UNION {[1..n -> Elements] : n \in 1..MaxBatch}

\* The primitive delivers a batch: lines 95-97.
StartDispatch(batch) ==
  /\ pc = "idle"
  /\ pc' = "outer"
  /\ entries' = batch
  /\ i' = Len(batch) - 1
  /\ seen' = {}
  /\ skipped' = {}
  /\ laterDispatch' = \E element \in Elements, callback \in Callbacks :
                         disposers[<<element, callback, TRUE>>] > 0
  /\ UNCHANGED <<ownerWindow, liveRegs, registry, disposers, callbacks, k, startCallbacks, invoked,
                 cancelled>>

\* Lines 100-102: the target was seen already in this batch.
SkipSeen ==
  /\ pc = "outer" /\ i >= 0
  /\ target \in seen
  /\ i' = i - 1
  /\ UNCHANGED <<ownerWindow, liveRegs, registry, disposers, pc, entries, seen, callbacks, k, history>>

\* Lines 103-107: the target has no list in viewportCallbacks.
SkipUnregistered ==
  /\ pc = "outer" /\ i >= 0
  /\ target \notin seen
  /\ ~Has(viewportCallbacks, target)
  /\ seen' = seen \cup {target}
  /\ i' = i - 1
  /\ skipped' = skipped \cup {target}
  /\ UNCHANGED <<ownerWindow, liveRegs, registry, disposers, pc, entries, callbacks, k,
                 startCallbacks, invoked, cancelled, laterDispatch>>

\* Lines 103-108: the inner loop over the target's list begins.
BeginTarget ==
  /\ pc = "outer" /\ i >= 0
  /\ target \notin seen
  /\ Has(viewportCallbacks, target)
  /\ seen' = seen \cup {target}
  /\ callbacks' = "registry"
  /\ k' = 0
  /\ pc' = "inner"
  /\ startCallbacks' = viewportCallbacks[target]
  /\ invoked' = <<>>
  /\ cancelled' = {}
  /\ UNCHANGED <<ownerWindow, liveRegs, registry, disposers, entries, i, skipped, laterDispatch>>

\* Lines 108-110: callbacks[k] is called with the record.
InvokeCallback ==
  /\ pc = "inner"
  /\ k < Len(localCallbacks)
  /\ invoked' = Append(invoked, localCallbacks[k + 1])
  /\ pc' = "inCallback"
  /\ UNCHANGED <<ownerWindow, liveRegs, registry, disposers, dispatch, callbacks, startCallbacks,
                 cancelled, skipped, laterDispatch>>

\* Line 108: the callback returned; k++.
ReturnFromCallback ==
  /\ pc = "inCallback"
  /\ k' = k + 1
  /\ pc' = "inner"
  /\ UNCHANGED <<ownerWindow, liveRegs, registry, disposers, entries, i, seen, callbacks, history>>

\* Line 108: k reached callbacks.length; on to the next record.
EndTarget ==
  /\ pc = "inner"
  /\ k >= Len(localCallbacks)
  /\ pc' = "outer"
  /\ i' = i - 1
  /\ callbacks' = "none"
  /\ k' = 0
  /\ startCallbacks' = <<>>
  /\ invoked' = <<>>
  /\ cancelled' = {}
  /\ UNCHANGED <<ownerWindow, liveRegs, registry, disposers, entries, seen, skipped, laterDispatch>>

\* Line 97: i < 0, ioCallback returns.
FinishDispatch ==
  /\ pc = "outer" /\ i < 0
  /\ pc' = "idle"
  /\ entries' = <<>>
  /\ i' = 0
  /\ seen' = {}
  /\ skipped' = {}
  /\ laterDispatch' = FALSE
  /\ UNCHANGED <<ownerWindow, liveRegs, registry, disposers, callbacks, k, startCallbacks, invoked,
                 cancelled>>

----------------------------------------------------------------------------
Init ==
  /\ ownerWindow \in {f \in [Elements -> Windows] : f["e1"] = "w1"}
  /\ viewportObservers = <<>>
  /\ viewportCallbacks = <<>>
  /\ observers = <<>>
  /\ disposers = [d \in Disposers |-> 0]
  /\ pc = "idle"
  /\ entries = <<>>
  /\ i = 0
  /\ seen = {}
  /\ callbacks = "none"
  /\ k = 0
  /\ startCallbacks = <<>>
  /\ invoked = <<>>
  /\ cancelled = {}
  /\ skipped = {}
  /\ laterDispatch = FALSE
  /\ liveRegs = [element \in Elements |-> <<>>]

Observe == \E element \in Elements, callback \in Callbacks :
             observeIntersections(element, callback)
Dispose == \E element \in Elements, callback \in Callbacks, calledBefore \in BOOLEAN :
             CallDisposer(element, callback, calledBefore)
Deliver == \E batch \in Batches : StartDispatch(batch)

Next ==
  \/ Observe
  \/ Dispose
  \/ Deliver
  \/ SkipSeen
  \/ SkipUnregistered
  \/ BeginTarget
  \/ InvokeCallback
  \/ ReturnFromCallback
  \/ EndTarget
  \/ FinishDispatch

Spec == Init /\ [][Next]_vars

TypeOK ==
  /\ DOMAIN viewportObservers \subseteq Windows
  /\ DOMAIN viewportCallbacks \subseteq Elements
  /\ \A e \in DOMAIN viewportCallbacks : Len(viewportCallbacks[e]) > 0
  /\ pc \in {"idle", "outer", "inner", "inCallback"}
  /\ callbacks \in {"none", "registry", "detached"}
  /\ callbacks = "registry" => Has(viewportCallbacks, target)

----------------------------------------------------------------------------
\* Vocabulary of the properties.

Count(s, c) == Cardinality({n \in 1..Len(s) : s[n] = c})

\* The callback list of an element, empty when the registry has no entry for it.
ListOf(map, element) == IF Has(map, element) THEN map[element] ELSE <<>>

\* The primitive of the element's window is watching the element.
Watching(vo, obs, element) ==
  /\ Has(vo, getWin(element))
  /\ element \in obs[vo[getWin(element)]].watched

\* During the loop over the target's list: callback c was in the list when the loop
\* began, no disposer for (target, c) ran since, and no further c was registered.
Untouched(c) ==
  /\ c \in Range(startCallbacks)
  /\ c \notin cancelled
  /\ Count(localCallbacks, c) = Count(startCallbacks, c)

\* The callbacks of the target that were registered when its loop began and whose
\* disposer did not run during the loop.
Remaining == Range(startCallbacks) \ cancelled

----------------------------------------------------------------------------
\* C1: two distinct callbacks c1, c2 registered for e, c1 first, are both invoked,
\* c1 before c2, by every dispatch naming e, also when a callback calls a disposer
\* or registers a callback during the dispatch.  Read in the claim's favour: c2's
\* own disposer did not run during the loop, and c1 was invoked or not disposed.
\* Checked when the loop over e's list ends.
C1_BothInvokedInOrder ==
  [][EndTarget =>
       \A p, q \in 1..Len(startCallbacks) :
         ( /\ p < q
           /\ startCallbacks[p] # startCallbacks[q]
           /\ startCallbacks[q] \notin cancelled
           /\ (startCallbacks[p] \notin cancelled \/ startCallbacks[p] \in Range(invoked)) )
         => \E a, b \in 1..Len(invoked) :
              a < b /\ invoked[a] = startCallbacks[p] /\ invoked[b] = startCallbacks[q]
    ]_vars

\* C2: the first call of a disposer for (e, c) removes one c from e's list and
\* nothing else (the other entries keep their order, the other elements' lists and
\* the observer registry are unchanged), and in every dispatch that begins after a
\* disposer call each callback still registered for the target is invoked.
C2_DisposerRemovesOnlyItsCallback ==
  [][ /\ \A element \in Elements, callback \in Callbacks :
           CallDisposer(element, callback, FALSE) =>
             /\ ListOf(viewportCallbacks', element)
                  = WithoutFirst(ListOf(viewportCallbacks, element), callback)
             /\ \A other \in Elements \ {element} :
                  ListOf(viewportCallbacks', other) = ListOf(viewportCallbacks, other)
             /\ viewportObservers' = viewportObservers
      /\ (EndTarget /\ laterDispatch) => Remaining \subseteq Range(invoked)
    ]_vars

\* C3: a second or later call of the same disposer changes neither registry nor
\* any primitive's watched set.
C3_RepeatedDisposerCallIsNoOp ==
  [][\A element \in Elements, callback \in Callbacks :
       CallDisposer(element, callback, TRUE) => UNCHANGED registry]_vars

\* C4: a callback whose disposer ran is invoked again only through another
\* registration of it that is still outstanding, and a cancellation during a
\* dispatch leaves the other registered callbacks of the element unaffected: each
\* is invoked once per registration by that dispatch.
C4_CancellationLeavesOthersUnaffected ==
  [][ /\ InvokeCallback =>
           (localCallbacks[k + 1] \in cancelled
              => disposers[<<target, localCallbacks[k + 1], FALSE>>] > 0)
      /\ (EndTarget /\ cancelled # {}) =>
           \A c \in Callbacks : Untouched(c) => Count(invoked, c) = Count(startCallbacks, c)
    ]_vars

\* C5: when the batch holds several records for the target, a callback is invoked
\* with the record of the highest index for that target only, and each callback
\* registered for the target is invoked exactly once per registration.
C5_LastRecordOncePerCallback ==
  [][ /\ InvokeCallback => \A j \in (i + 1)..(Len(entries) - 1) : entries[j + 1] # target
      /\ (EndTarget /\ Count(entries, target) > 1) =>
           \A c \in Callbacks : Untouched(c) => Count(invoked, c) = Count(startCallbacks, c)
    ]_vars

\* C6: a disposer call makes the primitive stop watching the element exactly when it
\* removes the last callback of the element, and then the registry entry is deleted;
\* a call that leaves the list non-empty and a repeated call of a disposer never do;
\* observeIntersections makes the primitive watch the element and creates the entry.
C6_UnobserveOnLastDisposalOnly ==
  [][ /\ \A element \in Elements, callback \in Callbacks, calledBefore \in BOOLEAN :
           CallDisposer(element, callback, calledBefore) =>
             LET stopped == /\ Watching(viewportObservers, observers, element)
                            /\ ~Watching(viewportObservers', observers', element)
                 last == ListOf(viewportCallbacks, element) = <<callback>>
             IN /\ stopped => (last /\ ~calledBefore)
                /\ (last /\ ~calledBefore) => (stopped /\ ~Has(viewportCallbacks', element))
      /\ \A element \in Elements, callback \in Callbacks :
           observeIntersections(element, callback) =>
             /\ Watching(viewportObservers', observers', element)
             /\ Has(viewportCallbacks', element)
    ]_vars

\* C7 (Invariant A): an element is a key of the callback registry if and only if
\* the primitive of its window is watching it, and no other primitive watches it.
C7_InvariantA ==
  \A element \in Elements :
    /\ Has(viewportCallbacks, element) <=> Watching(viewportObservers, observers, element)
    /\ \A id \in 1..Len(observers) :
         element \in observers[id].watched
           => Has(viewportObservers, getWin(element))
              /\ viewportObservers[getWin(element)] = id

\* C7's case: an element was registered and fully unregistered again (its disposer
\* ran, it has no entry and is not watched) while another element is registered
\* and watched.
C7_Witness ==
  \E e1, e2 \in Elements :
    /\ e1 # e2
    /\ \E c \in Callbacks : disposers[<<e1, c, TRUE>>] > 0
    /\ ~Has(viewportCallbacks, e1)
    /\ ~Watching(viewportObservers, observers, e1)
    /\ Has(viewportCallbacks, e2)
    /\ Watching(viewportObservers, observers, e2)

\* A window for which observeIntersections has been called.
EverRegistered(win) ==
  \E element \in Elements, callback \in Callbacks, calledBefore \in BOOLEAN :
    getWin(element) = win /\ disposers[<<element, callback, calledBefore>>] > 0

\* C8: exactly one primitive has been constructed for each window that has had a
\* registration and none for the others; the observer registry maps each such
\* window to its own primitive (also after all its elements were unobserved), and
\* two windows never share one.
C8_OnePrimitivePerWindow ==
  /\ \A win \in Windows : Has(viewportObservers, win) <=> EverRegistered(win)
  /\ Len(observers) = Cardinality(DOMAIN viewportObservers)
  /\ \A win \in DOMAIN viewportObservers :
       /\ viewportObservers[win] \in 1..Len(observers)
       /\ observers[viewportObservers[win]].win = win
  /\ \A w1, w2 \in DOMAIN viewportObservers :
       viewportObservers[w1] = viewportObservers[w2] => w1 = w2

\* C8's case: two elements of one window are registered on the one primitive of
\* that window, one of them again after its last callback had been disposed.
C8_Witness ==
  /\ getWin("e1") = getWin("e2")
  /\ Has(viewportCallbacks, "e1") /\ Has(viewportCallbacks, "e2")
  /\ \E c \in Callbacks :
       disposers[<<"e1", c, TRUE>>] > 0 /\ viewportCallbacks["e1"] = <<c>>
  /\ Len(observers) = 1
  /\ observers[1].watched = {"e1", "e2"}

\* C9: registrations are a multiset: observeIntersections appends one entry, also
\* for a callback already in the list; a disposer call that finds the callback
\* removes its first occurrence only; the element stays watched as long as an entry
\* is left; and a dispatch invokes a callback that has n > 1 entries in the list n
\* times.
C9_MultisetSemantics ==
  [][ /\ \A element \in Elements, callback \in Callbacks :
           observeIntersections(element, callback) =>
             ListOf(viewportCallbacks', element)
               = Append(ListOf(viewportCallbacks, element), callback)
      /\ \A element \in Elements, callback \in Callbacks, calledBefore \in BOOLEAN :
           CallDisposer(element, callback, calledBefore) =>
             /\ ListOf(viewportCallbacks', element)
                  = WithoutFirst(ListOf(viewportCallbacks, element), callback)
             /\ Watching(viewportObservers', observers', element)
                  <=> ListOf(viewportCallbacks', element) # <<>>
      /\ EndTarget =>
           \A c \in Callbacks :
             (Untouched(c) /\ Count(startCallbacks, c) > 1)
               => Count(invoked, c) = Count(startCallbacks, c)
    ]_vars

\* C10: a record whose target has no entry in the callback registry is skipped: no
\* callback is invoked for it and no registry changes; the records of the other
\* targets of the batch are delivered to the callbacks registered for them.
C10_UnregisteredTargetSkipped ==
  [][ /\ SkipUnregistered => UNCHANGED <<registry, invoked>> /\ pc' = "outer"
      /\ (EndTarget /\ skipped # {}) => Remaining \subseteq Range(invoked)
    ]_vars

\* C11: every callback list stored in the element registry is non-empty and holds
\* exactly the registrations of its element that no disposer call has removed, in
\* registration order; an element with no such registration left has no entry; and
\* no list holds more entries of a callback than there are disposers for it that
\* were never called.
C11_ListsHoldLiveRegistrations ==
  \A element \in Elements :
    /\ Has(viewportCallbacks, element) => viewportCallbacks[element] # <<>>
    /\ ListOf(viewportCallbacks, element) = liveRegs[element]
    /\ Has(viewportCallbacks, element) <=> liveRegs[element] # <<>>
    /\ \A c \in Callbacks :
         Count(ListOf(viewportCallbacks, element), c) <= disposers[<<element, c, FALSE>>]

\* C11's case: A, B and A were registered for e1 and one disposer call for (e1, A)
\* removed the first A: the list keeps B before the later A.
C11_Witness ==
  /\ Has(viewportCallbacks, "e1")
  /\ viewportCallbacks["e1"] = <<"B", "A">>
  /\ disposers[<<"e1", "A", TRUE>>] = 1
  /\ disposers[<<"e1", "A", FALSE>>] = 1
  /\ disposers[<<"e1", "B", FALSE>>] = 1
====
